---- MODULE Spec2Model ----
(***************************************************************************)
(* Model of the pairs-trading signal engine (luckydom/trading_signals).    *)
(*                                                                         *)
(* This part covers src/src/strategy/state.py: TradingStateMachine, its    *)
(* transition function process_tick, and its persistence to the JSON state *)
(* file (save_state / load_state / __init__ / reset).                      *)
(*                                                                         *)
(* Numbers: z-scores and thresholds are floats in the source; here they    *)
(* are integers in tenths (z = 2.1 is 21), which keeps every comparison    *)
(* of the source exact.                                                    *)
(*                                                                         *)
(* Python / JSON values are tagged pairs <<tag, payload>> so that values   *)
(* of different Python types are never confused:                           *)
(*   <<"none", 0>>     None / JSON null                                    *)
(*   <<"nan", 0>>      float('nan')                                        *)
(*   <<"num", n>>      a float / JSON number                               *)
(*   <<"dt", t>>       a datetime / pd.Timestamp for instant t             *)
(*   <<"iso", t>>      the str that is the ISO-8601 text of instant t      *)
(*   <<"str", s>>      any other str                                       *)
(* TradingSignal carries timestamp, beta, spread, reason and the two       *)
(* prices through unchanged from the arguments; the model keeps            *)
(* signal_type, zscore, previous_state and new_state.                      *)
(***************************************************************************)
EXTENDS Integers, Sequences, FiniteSets, TLC

VARIABLES
    z_in, z_out, z_stop,    \* thresholds given to __init__ (tenths)
    state_file,             \* TRUE iff a state_file path was given to __init__
    machine,                \* the fields of the live TradingStateMachine
    file,                   \* what is on disk at the state_file path
    signal,                 \* the TradingSignal returned by the last process_tick
    last_op,                \* the operation that produced this state
    wrote,                  \* TRUE iff the last operation wrote the state file
    path,                   \* observer: progress along the end-to-end z path
    rise,                   \* observer: progress along the rise/hover/drop sequence
    last_defined,           \* observer: last defined z-score fed to this instance
    single,                 \* a second machine that is never reloaded
    single_signal,          \* the signal the second machine returned last
    pc,                     \* position of the process inside save_state
    observed,               \* the file content last read back from disk
    bt,                     \* the columns run_backtest has built, bar by bar
    sz,                     \* the last call of calculate_position_size
    ct,                     \* the last call of test_cointegration
    rb,                     \* the last call of rolling_beta
    run                     \* the last run of run_batch for the pair

vars == <<z_in, z_out, z_stop, state_file, machine, file, signal, last_op,
          wrote, path, rise, last_defined, single, single_signal, pc, observed,
          bt, sz, ct, rb, run>>

\* the state of the components other than the state machine
others == <<bt, sz, ct, rb, run>>

----------------------------------------------------------------------------
(* Bounds and input sets *)

\* z-scores offered to process_tick, in tenths
ZValues == {-36, -21, -20, -1, 0, 4, 5, 10, 14, 19, 20, 21, 35, 36}

\* number of distinct instants offered as tick timestamps
MaxTime == 2

\* number of distinct hedge ratios offered as beta
MaxBeta == 2

\* (z_in, z_out, z_stop) triples offered to __init__: the defaults of the
\* source, one with z_out >= z_in, and one with z_out above z_stop as well
ThresholdConfigs == { <<20, 5, 35>>, <<10, 20, 35>>, <<20, 40, 35>> }

DefaultThresholds == <<20, 5, 35>>

\* number of further ticks above z_in in the rise/hover/drop sequence
HoverTicks == 5

----------------------------------------------------------------------------
(* Python values *)

None == <<"none", 0>>
NaN == <<"nan", 0>>
Num(n) == <<"num", n>>
Datetime(t) == <<"dt", t>>
Str(s) == <<"str", s>>

ZScores == { Num(n) : n \in ZValues } \cup { NaN }
Timestamps == { Datetime(t) : t \in 1..MaxTime }
Betas == { Num(b) : b \in 1..MaxBeta }

\* pd.isna on a scalar
isna(v) == v[1] \in {"none", "nan"}

\* abs() on a float
abs(v) == IF v[2] < 0 THEN Num(0 - v[2]) ELSE v

\* bool(v): Python truthiness of a value
truthy(v) ==
    CASE v[1] = "none" -> FALSE
      [] v[1] = "num"  -> v[2] # 0
      [] v[1] = "str"  -> v[2] # ""
      [] OTHER         -> TRUE

----------------------------------------------------------------------------
(* PositionState and SignalType *)

NEUTRAL == "NEUTRAL"
LONG_SPREAD == "LONG_SPREAD"
SHORT_SPREAD == "SHORT_SPREAD"
PositionStates == {NEUTRAL, LONG_SPREAD, SHORT_SPREAD}

ENTER_LONG_SPREAD == "ENTER_LONG_SPREAD"
ENTER_SHORT_SPREAD == "ENTER_SHORT_SPREAD"
EXIT_POSITION == "EXIT_POSITION"
STOP_LOSS == "STOP_LOSS"
NO_ACTION == "NO_ACTION"

\* PositionState.value
StateValue(s) ==
    CASE s = NEUTRAL      -> Str("neutral")
      [] s = LONG_SPREAD  -> Str("long_spread")
      [] s = SHORT_SPREAD -> Str("short_spread")

\* PositionState(v) succeeds exactly on the three values; otherwise ValueError
StateValueKnown(v) ==
    v \in { Str("neutral"), Str("long_spread"), Str("short_spread") }

PositionState(v) ==
    CASE v = Str("neutral")      -> NEUTRAL
      [] v = Str("long_spread")  -> LONG_SPREAD
      [] v = Str("short_spread") -> SHORT_SPREAD

----------------------------------------------------------------------------
(* The state file *)

\* keys of the state_data dict
Keys == {"current_state", "entry_zscore", "entry_timestamp", "entry_beta",
         "previous_zscore"}

\* marks a key that the JSON object does not have
Missing == <<"missing", 0>>

NoData == [k \in Keys |-> Missing]

\* no file at the path
AbsentFile == [kind |-> "absent", data |-> NoData]

\* a file of length zero, as open(path, 'w') leaves it
EmptyFile == [kind |-> "empty", data |-> NoData]

\* a file holding a JSON object
ObjectFile(d) == [kind |-> "object", data |-> d]

\* dict.get(key, default)
get(d, k, default) == IF d[k] = Missing THEN default ELSE d[k]

\* a variant of isoformat that writes the date without the time of day
\* (all instants offered as tick timestamps lie on the day of instant 1)
isoformat_date_only(ts) == <<"iso", 1>>

\* datetime.isoformat()
isoformat(ts) == <<"iso", ts[2]>>

\* pd.to_datetime(v) raises on a str that is not a date
to_datetime_raises(v) == v[1] = "str"

\* pd.to_datetime(v): an ISO text gives its instant, a number is taken as
\* an offset from the epoch
to_datetime(v) ==
    CASE v[1] = "iso" -> Datetime(v[2])
      [] v[1] = "num" -> <<"epoch", v[2]>>
      [] OTHER        -> <<"nat", 0>>

----------------------------------------------------------------------------
(* TradingStateMachine *)

\* the fields __init__ sets before it loads anything
NewMachine ==
    [current_state   |-> NEUTRAL,
     entry_zscore    |-> None,
     entry_timestamp |-> None,
     entry_beta      |-> None,
     previous_zscore |-> None]

\* the state_data dict save_state builds
state_data(m) ==
    [k \in Keys |->
        CASE k = "current_state"   -> StateValue(m.current_state)
          [] k = "entry_zscore"    -> m.entry_zscore
          [] k = "entry_timestamp" ->
                IF truthy(m.entry_timestamp) THEN isoformat(m.entry_timestamp)
                                             ELSE None
          [] k = "entry_beta"      -> m.entry_beta
          [] k = "previous_zscore" -> m.previous_zscore]

\* the file after save_state has returned (f is the file before)
save_state(m, f) == IF ~state_file THEN f ELSE ObjectFile(state_data(m))

\* the fields after load_state: json.load raises on a file that is not JSON,
\* .get raises on a document that is not an object, PositionState() raises on
\* an unknown value and pd.to_datetime on an unparsable text; the except
\* clause keeps whatever was assigned before the exception
load_state(m, f) ==
    IF f.kind = "absent" THEN m
    ELSE IF f.kind # "object" THEN m
    ELSE
      LET d  == f.data
          cs == get(d, "current_state", Str("neutral"))
          ts == get(d, "entry_timestamp", None)
      IN  IF ~StateValueKnown(cs) THEN m
          ELSE
            LET m1 == [m EXCEPT !.current_state = PositionState(cs),
                                !.entry_zscore  = get(d, "entry_zscore", None)]
            IN  IF truthy(ts) /\ to_datetime_raises(ts) THEN m1
                ELSE [m1 EXCEPT
                        !.entry_timestamp =
                            IF truthy(ts) THEN to_datetime(ts) ELSE None,
                        !.entry_beta      = get(d, "entry_beta", None),
                        !.previous_zscore = get(d, "previous_zscore", None)]

\* the fields after __init__(..., state_file) with f on disk
Construct(f) ==
    IF state_file /\ f.kind # "absent" THEN load_state(NewMachine, f)
                                       ELSE NewMachine

\* the fields after reset(), before its save_state
reset(m) == NewMachine

\* a variant of _is_crossing that tests the level of the current value only
_is_crossing_level(previous, current, threshold, direction) ==
    IF isna(previous) \/ isna(current) THEN FALSE
    ELSE IF direction = "above"
         THEN current[2] > threshold
         ELSE current[2] < threshold

_is_crossing(previous, current, threshold, direction) ==
    IF isna(previous) \/ isna(current) THEN FALSE
    ELSE IF direction = "above"
         THEN previous[2] <= threshold /\ current[2] > threshold
         ELSE previous[2] >= threshold /\ current[2] < threshold

Signal(kind, z, prev_state, new_state) ==
    [signal_type    |-> kind,
     zscore         |-> z,
     previous_state |-> prev_state,
     new_state      |-> new_state]

\* before any process_tick has returned
NoSignal == Signal("none", None, NEUTRAL, NEUTRAL)

\* a variant of Entered that takes the z-score stored before the tick
Entered_previous_zscore(m, timestamp, zscore, beta) ==
    [m EXCEPT !.entry_zscore = m.previous_zscore,
              !.entry_timestamp = timestamp,
              !.entry_beta = beta]

Entered(m, timestamp, zscore, beta) ==
    [m EXCEPT !.entry_zscore = zscore,
              !.entry_timestamp = timestamp,
              !.entry_beta = beta]

Cleared(m) ==
    [m EXCEPT !.entry_zscore = None,
              !.entry_timestamp = None,
              !.entry_beta = None]

\* the branch of process_tick taken from NEUTRAL: <<signal_type, new_state, fields>>
FromNeutral(m, timestamp, zscore, beta) ==
    IF m.previous_zscore # None
    THEN IF _is_crossing(m.previous_zscore, zscore, 0 - z_in, "below")
         THEN <<ENTER_LONG_SPREAD, LONG_SPREAD, Entered(m, timestamp, zscore, beta)>>
         ELSE IF _is_crossing(m.previous_zscore, zscore, z_in, "above")
         THEN <<ENTER_SHORT_SPREAD, SHORT_SPREAD, Entered(m, timestamp, zscore, beta)>>
         ELSE <<NO_ACTION, m.current_state, m>>
    ELSE <<NO_ACTION, m.current_state, m>>

\* a variant of FromPosition that tests the exit before the stop loss
FromPosition_exit_first(m, zscore) ==
    IF abs(zscore)[2] < z_out
    THEN <<EXIT_POSITION, NEUTRAL, Cleared(m)>>
    ELSE IF abs(zscore)[2] > z_stop
    THEN <<STOP_LOSS, NEUTRAL, Cleared(m)>>
    ELSE <<NO_ACTION, m.current_state, m>>

\* the branch of process_tick taken from LONG_SPREAD and from SHORT_SPREAD
FromPosition(m, zscore) ==
    IF abs(zscore)[2] > z_stop
    THEN <<STOP_LOSS, NEUTRAL, Cleared(m)>>
    ELSE IF abs(zscore)[2] < z_out
    THEN <<EXIT_POSITION, NEUTRAL, Cleared(m)>>
    ELSE <<NO_ACTION, m.current_state, m>>

\* a variant of InvalidZscore that stores the undefined z-score
InvalidZscore_stored(m, zscore) ==
    [machine |-> [m EXCEPT !.previous_zscore = zscore],
     signal  |-> Signal(NO_ACTION, zscore, m.current_state, m.current_state),
     save    |-> FALSE]

\* the early return of process_tick on an undefined z-score
InvalidZscore(m, zscore) ==
    [machine |-> m,
     signal  |-> Signal(NO_ACTION, zscore, m.current_state, m.current_state),
     save    |-> FALSE]

\* a variant of UpdateState that keeps previous_zscore on NO_ACTION
UpdateState_on_signal(b, zscore) ==
    [b[3] EXCEPT !.current_state = b[2],
                 !.previous_zscore =
                     IF b[1] = NO_ACTION THEN b[3].previous_zscore ELSE zscore]

\* a variant of UpdateState that leaves current_state as it was
UpdateState_state_kept(b, zscore) ==
    [b[3] EXCEPT !.previous_zscore = zscore]

\* "Update state": the two assignments that end every defined tick
UpdateState(b, zscore) ==
    [b[3] EXCEPT !.current_state = b[2],
                 !.previous_zscore = zscore]

\* a variant of SaveIfChanged that saves on every tick
SaveIfChanged_always(signal_type) == TRUE

\* "Save state if changed": whether process_tick calls save_state
SaveIfChanged(signal_type) == signal_type # NO_ACTION

\* process_tick up to its return, without the save: the fields after the
\* call, the signal returned, and whether save_state is called
process_tick(m, timestamp, zscore, beta) ==
    IF isna(zscore)
    THEN InvalidZscore(m, zscore)
    ELSE
      LET b == IF m.current_state = NEUTRAL
               THEN FromNeutral(m, timestamp, zscore, beta)
               ELSE FromPosition(m, zscore)
      IN  [machine |-> UpdateState(b, zscore),
           signal  |-> Signal(b[1], zscore, m.current_state, b[2]),
           save    |-> SaveIfChanged(b[1])]

----------------------------------------------------------------------------
(* Observers: they record what was fed to the live instance and what it      *)
(* returned; no operation of the program reads them.                         *)

\* the end-to-end z path [1.0, 1.9, 2.1, 1.4, 0.4, -0.1]
ZPath == <<Num(10), Num(19), Num(21), Num(14), Num(4), Num(-1)>>

\* path.on: every tick fed to this instance since construction followed ZPath;
\* path.sigs: the signal types returned for them
PathStart == [on |-> TRUE, sigs |-> <<>>]
PathOff == [on |-> FALSE, sigs |-> <<>>]

PathStep(p, zscore, kind) ==
    IF p.on /\ Len(p.sigs) < Len(ZPath) /\ zscore = ZPath[Len(p.sigs) + 1]
    THEN [on |-> TRUE, sigs |-> Append(p.sigs, kind)]
    ELSE PathOff

\* rise.phase follows a sequence fed to a new instance that starts at 0,
\* rises without falling to above z_in ("above" from the crossing tick on),
\* stays above for HoverTicks further ticks and then drops; rise.shorts counts
\* the ENTER_SHORT_SPREAD signals of the sequence, rise.at_cross tells whether
\* the crossing tick returned one, rise.hover counts the further ticks
RiseStart == [phase |-> "start", hover |-> 0, shorts |-> 0, at_cross |-> FALSE, last |-> 0]
RiseOff == [phase |-> "off", hover |-> 0, shorts |-> 0, at_cross |-> FALSE, last |-> 0]

RiseStep(r, zscore, kind) ==
    LET z == zscore[2]
        n == r.shorts + (IF kind = ENTER_SHORT_SPREAD THEN 1 ELSE 0)
    IN  IF isna(zscore) THEN RiseOff
        ELSE CASE r.phase = "start" /\ z = 0 ->
                    [r EXCEPT !.phase = "rising", !.shorts = n, !.last = z]
               [] r.phase = "rising" /\ z >= r.last /\ z <= z_in ->
                    [r EXCEPT !.shorts = n, !.last = z]
               [] r.phase = "rising" /\ z > z_in ->
                    [r EXCEPT !.phase = "above", !.shorts = n, !.last = 0,
                              !.at_cross = (kind = ENTER_SHORT_SPREAD)]
               [] r.phase = "above" /\ z > z_in /\ r.hover < HoverTicks ->
                    [r EXCEPT !.hover = r.hover + 1, !.shorts = n]
               [] r.phase = "above" /\ z <= z_in /\ r.hover = HoverTicks ->
                    [r EXCEPT !.phase = "dropped", !.shorts = n]
               [] OTHER -> RiseOff

----------------------------------------------------------------------------
(* Floats of the backtester, the sizer and the cointegration tester.         *)
(* A float is a pair <<n, d>>: the fraction n/d in lowest terms with d > 0;  *)
(* <<0, 0>> is NaN, <<1, 0>> is +inf and <<-1, 0>> is -inf. Arithmetic is    *)
(* exact, so sums and products have no rounding error.                       *)

RECURSIVE GCD(_, _)
GCD(a, b) == IF b = 0 THEN a ELSE GCD(b, a % b)

Abs(n) == IF n < 0 THEN 0 - n ELSE n
Sign(n) == IF n < 0 THEN 0 - 1 ELSE IF n > 0 THEN 1 ELSE 0

NaNF == <<0, 0>>
PosInf == <<1, 0>>
NegInf == <<0 - 1, 0>>

\* the float n/d, d # 0
Frac(n, d) ==
    LET g == GCD(Abs(n), Abs(d))
    IN  <<Sign(d) * (n \div g), Abs(d) \div g>>

Whole(n) == <<n, 1>>
Zero == <<0, 1>>
One == <<1, 1>>

IsNaN(x) == x = NaNF
IsInf(x) == x[2] = 0 /\ x[1] # 0
IsFinite(x) == x[2] # 0

\* x < y, x <= y on floats; every comparison with NaN is false
Lt(x, y) ==
    /\ ~IsNaN(x) /\ ~IsNaN(y)
    /\ IF IsInf(x) \/ IsInf(y)
       THEN (IF IsInf(x) THEN 2 * x[1] ELSE 0) < (IF IsInf(y) THEN 2 * y[1] ELSE 0)
       ELSE x[1] * y[2] < y[1] * x[2]
Le(x, y) ==
    /\ ~IsNaN(x) /\ ~IsNaN(y)
    /\ (x = y \/ Lt(x, y))
Gt(x, y) == Lt(y, x)
Ge(x, y) == Le(y, x)

\* x * y
Mul(x, y) ==
    IF IsNaN(x) \/ IsNaN(y) THEN NaNF
    ELSE IF IsInf(x) \/ IsInf(y)
         THEN (IF x[1] = 0 \/ y[1] = 0 THEN NaNF ELSE <<Sign(x[1]) * Sign(y[1]), 0>>)
         ELSE LET g1 == GCD(Abs(x[1]), y[2])
                  g2 == GCD(Abs(y[1]), x[2])
              IN  Frac((x[1] \div g1) * (y[1] \div g2), (x[2] \div g2) * (y[2] \div g1))

\* x + y
Add(x, y) ==
    IF IsNaN(x) \/ IsNaN(y) THEN NaNF
    ELSE IF IsInf(x) /\ IsInf(y) THEN (IF x = y THEN x ELSE NaNF)
    ELSE IF IsInf(x) THEN x
    ELSE IF IsInf(y) THEN y
    ELSE LET g == GCD(x[2], y[2])
         IN  Frac(x[1] * (y[2] \div g) + y[1] * (x[2] \div g), (x[2] \div g) * y[2])

Neg(x) == <<0 - x[1], x[2]>>
Sub(x, y) == Add(x, Neg(y))
AbsF(x) == <<Abs(x[1]), x[2]>>

\* x / y in numpy: a division by zero gives inf or NaN, never an exception
Div(x, y) ==
    IF IsNaN(x) \/ IsNaN(y) THEN NaNF
    ELSE IF IsInf(y) THEN (IF IsInf(x) THEN NaNF ELSE Zero)
    ELSE IF y[1] = 0 THEN (IF x[1] = 0 THEN NaNF ELSE <<Sign(x[1]), 0>>)
    ELSE IF IsInf(x) THEN <<x[1] * Sign(y[1]), 0>>
    ELSE Frac(x[1] * y[2], x[2] * y[1])

\* np.minimum(x, y): NaN if either is NaN
Minimum(x, y) ==
    IF IsNaN(x) \/ IsNaN(y) THEN NaNF ELSE IF Lt(y, x) THEN y ELSE x

\* Series.fillna(v)
fillna(x, v) == IF IsNaN(x) THEN v ELSE x

\* the sum of the floats s[a], ..., s[b]
RECURSIVE SumF(_, _, _)
SumF(s, a, b) == IF a > b THEN Zero ELSE Add(s[a], SumF(s, a + 1, b))

----------------------------------------------------------------------------
(* Values of bt, sz and ct before the component has been called *)

\* no trade being built by _extract_trades (current_trade = None)
NoTrade == [open |-> FALSE, entry |-> 0, direction |-> "none"]

BacktestStart ==
    [bars |-> <<>>, signal |-> <<>>, position |-> <<>>,
     eth_notional |-> <<>>, btc_notional |-> <<>>,
     eth_units |-> <<>>, btc_units |-> <<>>,
     eth_pnl |-> <<>>, btc_pnl |-> <<>>, trade_costs |-> <<>>,
     total_pnl |-> <<>>, equity_curve |-> <<>>,
     current_trade |-> NoTrade, trades |-> <<>>,
     sm |-> NewMachine, sm_state |-> <<>>]

SizerStart ==
    [called |-> FALSE, numpy |-> FALSE, beta |-> Zero, spread_std |-> Zero,
     btc_price |-> Zero, eth_price |-> Zero, btc_adv_usd |-> Zero,
     eth_adv_usd |-> Zero, capital |-> Zero, raised |-> FALSE,
     eth_notional_usd |-> Zero, btc_notional_usd |-> Zero,
     eth_units |-> Zero, btc_units |-> Zero, total_notional |-> Zero,
     leverage |-> Zero, expected_fees |-> Zero, expected_slippage |-> Zero,
     risk_per_zscore |-> Zero]

CointStart ==
    [called |-> FALSE, len_price1 |-> 0, len_price2 |-> 0, nans |-> 0,
     raises |-> FALSE, adf_pvalue |-> Zero, eg_pvalue |-> Zero,
     half_life |-> Zero, hurst |-> Zero,
     tested |-> FALSE, is_cointegrated |-> FALSE, reason |-> <<>>]

BetaStart ==
    [called |-> FALSE, logp_x |-> <<>>, logp_y |-> <<>>, window |-> 0,
     min_periods |-> 0, index |-> <<>>, beta |-> <<>>]

RunStart ==
    [called |-> FALSE, level_trigger |-> FALSE, zscore |-> None,
     loaded |-> NEUTRAL, ticked |-> NewMachine, ticked_file |-> AbsentFile,
     level |-> FALSE, levels |-> 0]


----------------------------------------------------------------------------
(* The machine in one process: construction, ticks, reset, restart *)

\* the state machine part of the state after construction
InitStateMachine ==
    /\ \E c \in ThresholdConfigs :
          /\ z_in = c[1]
          /\ z_out = c[2]
          /\ z_stop = c[3]
    /\ state_file \in BOOLEAN
    /\ file = AbsentFile
    /\ machine = NewMachine
    /\ signal = NoSignal
    /\ last_op = "__init__"
    /\ wrote = FALSE
    /\ path = PathStart
    /\ rise = RiseStart
    /\ last_defined = None
    /\ single = NewMachine
    /\ single_signal = NoSignal
    /\ pc = "idle"
    /\ observed = AbsentFile

Init ==
    /\ InitStateMachine
    /\ bt = BacktestStart
    /\ sz = SizerStart
    /\ ct = CointStart
    /\ rb = BetaStart
    /\ run = RunStart

thresholds == <<z_in, z_out, z_stop>>

\* one call of process_tick, its save_state included
ProcessTick(timestamp, zscore, beta) ==
    LET r == process_tick(machine, timestamp, zscore, beta)
    IN  /\ pc = "idle"
        /\ machine' = r.machine
        /\ signal' = r.signal
        /\ file' = IF r.save THEN save_state(r.machine, file) ELSE file
        /\ wrote' = (r.save /\ state_file)
        /\ last_op' = "process_tick"
        /\ path' = PathStep(path, zscore, r.signal.signal_type)
        /\ rise' = RiseStep(rise, zscore, r.signal.signal_type)
        /\ last_defined' = IF isna(zscore) THEN last_defined ELSE zscore
        /\ UNCHANGED <<others, z_in, z_out, z_stop, state_file, single, single_signal,
                       pc, observed>>

\* one call of reset
Reset ==
    /\ pc = "idle"
    /\ machine' = reset(machine)
    /\ file' = save_state(reset(machine), file)
    /\ wrote' = state_file
    /\ last_op' = "reset"
    /\ path' = PathOff
    /\ rise' = RiseOff
    /\ last_defined' = None
    /\ UNCHANGED <<others, z_in, z_out, z_stop, state_file, signal, single,
                   single_signal, pc, observed>>

\* the process ends and a new one constructs the machine again with the same
\* arguments (Scanner.__init__ at every run)
Restart ==
    /\ pc = "idle"
    /\ machine' = Construct(file)
    /\ wrote' = FALSE
    /\ last_op' = "__init__"
    /\ path' = PathOff
    /\ rise' = RiseOff
    /\ last_defined' = None
    /\ UNCHANGED <<others, z_in, z_out, z_stop, state_file, file, signal, single,
                   single_signal, pc, observed>>

Tick == \E timestamp \in Timestamps, zscore \in ZScores, beta \in Betas :
            ProcessTick(timestamp, zscore, beta)

Next == Tick \/ Reset \/ Restart

Spec == Init /\ [][Next]_vars

----------------------------------------------------------------------------
(* Properties of process_tick in one process (specification Spec) *)

IsPosition(st) == st \in {LONG_SPREAD, SHORT_SPREAD}

NoEntry(m) ==
    /\ m.entry_zscore = None
    /\ m.entry_timestamp = None
    /\ m.entry_beta = None

\* the step is a call of process_tick that returned signal'
TickStep == last_op' = "process_tick"

\* C1: process_tick returns ENTER_SHORT_SPREAD (ENTER_LONG_SPREAD) only at a
\* tick where the state is NEUTRAL, a defined previous z-score is stored, and
\* previous <= z_in < current (previous >= -z_in > current); and a sequence
\* that rises from 0 to above z_in, stays above for HoverTicks further ticks
\* and then drops has exactly one ENTER_SHORT_SPREAD, at the crossing tick.
C1_EnterOnlyOnCrossing ==
    [][ TickStep =>
          /\ signal'.signal_type = ENTER_SHORT_SPREAD =>
                /\ machine.current_state = NEUTRAL
                /\ machine.previous_zscore[1] = "num"
                /\ machine.previous_zscore[2] <= z_in
                /\ signal'.zscore[2] > z_in
          /\ signal'.signal_type = ENTER_LONG_SPREAD =>
                /\ machine.current_state = NEUTRAL
                /\ machine.previous_zscore[1] = "num"
                /\ machine.previous_zscore[2] >= 0 - z_in
                /\ signal'.zscore[2] < 0 - z_in
          /\ rise'.phase \in {"above", "dropped"} =>
                /\ rise'.shorts = 1
                /\ rise'.at_cross ]_vars

\* the whole rise/hover/drop sequence has been fed to one instance
C1_Witness == rise.phase = "dropped" /\ rise.hover = HoverTicks

\* the signal types the end-to-end z path must yield
ExpectedPathSignals ==
    <<NO_ACTION, NO_ACTION, ENTER_SHORT_SPREAD, NO_ACTION, EXIT_POSITION, NO_ACTION>>

\* C3: in LONG_SPREAD or SHORT_SPREAD with a defined z-score, |z| > z_stop
\* gives STOP_LOSS, else |z| < z_out gives EXIT_POSITION, else NO_ACTION with
\* the state kept; STOP_LOSS and EXIT_POSITION go to NEUTRAL and clear the
\* entry fields; with thresholds 2.0/0.5/3.5 the path ZPath yields
\* ExpectedPathSignals.
C3_StopThenExit ==
    [][ TickStep =>
          /\ (IsPosition(machine.current_state) /\ ~isna(signal'.zscore)) =>
                LET a == abs(signal'.zscore)[2]
                IN  /\ a > z_stop => signal'.signal_type = STOP_LOSS
                    /\ (a <= z_stop /\ a < z_out) =>
                            signal'.signal_type = EXIT_POSITION
                    /\ (a <= z_stop /\ a >= z_out) =>
                            /\ signal'.signal_type = NO_ACTION
                            /\ machine'.current_state = machine.current_state
                    /\ signal'.signal_type \in {STOP_LOSS, EXIT_POSITION} =>
                            /\ machine'.current_state = NEUTRAL
                            /\ signal'.new_state = NEUTRAL
                            /\ NoEntry(machine')
          /\ (thresholds = DefaultThresholds /\ path'.on) =>
                path'.sigs = SubSeq(ExpectedPathSignals, 1, Len(path'.sigs)) ]_vars

\* the whole path has been fed to one instance with the default thresholds
C3_Witness ==
    /\ thresholds = DefaultThresholds
    /\ path.on
    /\ Len(path.sigs) = Len(ZPath)

\* C4: process_tick with an undefined z-score returns NO_ACTION with
\* previous_state = new_state = the current state, and changes neither the
\* fields of the machine nor the state file.
C4_UndefinedIsNoOp ==
    [][ (TickStep /\ isna(signal'.zscore)) =>
          /\ signal'.signal_type = NO_ACTION
          /\ signal'.previous_state = machine.current_state
          /\ signal'.new_state = machine.current_state
          /\ machine' = machine
          /\ file' = file
          /\ ~wrote' ]_vars

\* an undefined z-score has been processed while a position is open, with a
\* previous z-score stored
C4_Witness ==
    /\ last_op = "process_tick"
    /\ signal.zscore = NaN
    /\ IsPosition(machine.current_state)
    /\ machine.previous_zscore # None

\* C5: after every process_tick with a defined z-score, whatever it returned,
\* previous_zscore is that z-score; so previous_zscore is the last defined
\* z-score this instance was fed since it was constructed or reset.
C5_PreviousIsLastDefined ==
    /\ (last_op = "process_tick" /\ ~isna(signal.zscore)) =>
            machine.previous_zscore = signal.zscore
    /\ last_defined # None => machine.previous_zscore = last_defined

\* a defined tick that returned NO_ACTION, followed by an undefined one
C5_Witness ==
    /\ last_op = "process_tick"
    /\ signal.signal_type = NO_ACTION
    /\ signal.zscore = NaN
    /\ last_defined = Num(19)
    /\ machine.current_state = NEUTRAL

\* C6: with a state file, process_tick writes the file iff the signal it
\* returns is not NO_ACTION, and what it writes is the snapshot of the fields
\* as they are after the tick.
C6_WriteIffSignal ==
    (last_op = "process_tick" /\ state_file) =>
        /\ wrote <=> signal.signal_type # NO_ACTION
        /\ wrote => file = ObjectFile(state_data(machine))
        /\ wrote => /\ file.data["current_state"] = StateValue(signal.new_state)
                    /\ file.data["previous_zscore"] = signal.zscore

\* a NO_ACTION tick after a write: the file holds an older previous_zscore
C6_Witness ==
    /\ last_op = "process_tick"
    /\ state_file
    /\ ~wrote
    /\ file.kind = "object"
    /\ file.data["previous_zscore"] # machine.previous_zscore

C10_InvalidThresholdsRejected ==
    last_op = "process_tick" => z_out < z_in

----------------------------------------------------------------------------
(* One process per tick (specification SpecReload): before every tick a new  *)
(* machine is constructed from the state file, as Scanner does at each run;  *)
(* the machine `single` is fed the same ticks and is never reloaded.         *)

InitReload == Init /\ state_file

ReloadTick(timestamp, zscore, beta) ==
    LET r == process_tick(Construct(file), timestamp, zscore, beta)
        s == process_tick(single, timestamp, zscore, beta)
    IN  /\ pc = "idle"
        /\ machine' = r.machine
        /\ signal' = r.signal
        /\ file' = IF r.save THEN save_state(r.machine, file) ELSE file
        /\ wrote' = (r.save /\ state_file)
        /\ last_op' = "process_tick"
        /\ single' = s.machine
        /\ single_signal' = s.signal
        /\ UNCHANGED <<others, z_in, z_out, z_stop, state_file, path, rise,
                       last_defined, pc, observed>>

NextReload == \E timestamp \in Timestamps, zscore \in ZScores, beta \in Betas :
                  ReloadTick(timestamp, zscore, beta)

SpecReload == InitReload /\ [][NextReload]_vars

\* C2: reloading the machine from the state file before each tick gives, tick
\* by tick, the same signal (type, previous_state, new_state) as one instance
\* fed the whole sequence.
C2_ReloadEquivalent ==
    /\ signal.signal_type = single_signal.signal_type
    /\ signal.previous_state = single_signal.previous_state
    /\ signal.new_state = single_signal.new_state

----------------------------------------------------------------------------
(* Construction from an arbitrary file (specification SpecLoad) *)

\* a file cut off inside the JSON text
TruncatedFile == [kind |-> "truncated", data |-> NoData]

\* a file holding JSON that is not an object
ArrayFile == [kind |-> "array", data |-> NoData]

\* values offered for each key of a JSON object on disk
KeyValues(k) ==
    CASE k = "current_state" ->
            {Missing, None, Str("neutral"), Str("long_spread"),
             Str("short_spread"), Str("bogus"), Num(1)}
      [] k = "entry_zscore" -> {Missing, None, Num(-21), Str("x")}
      [] k = "entry_timestamp" ->
            {Missing, None, <<"iso", 1>>, Str("garbage"), Num(5)}
      [] k = "entry_beta" -> {Missing, None, Num(1)}
      [] k = "previous_zscore" -> {Missing, None, Num(-21), Str("x")}

FileContents ==
    {AbsentFile, EmptyFile, TruncatedFile, ArrayFile}
    \cup { ObjectFile(d) : d \in { e \in [Keys -> UNION { KeyValues(k) : k \in Keys }] :
                                     \A k \in Keys : e[k] \in KeyValues(k) } }

\* the JSON object save_state writes: all five keys, a known state value,
\* numbers or null for the numeric fields, an ISO text or null for the time
WellFormed(f) ==
    /\ f.kind = "object"
    /\ StateValueKnown(f.data["current_state"])
    /\ f.data["entry_zscore"][1] \in {"num", "none"}
    /\ f.data["entry_timestamp"][1] \in {"iso", "none"}
    /\ f.data["entry_beta"][1] \in {"num", "none"}
    /\ f.data["previous_zscore"][1] \in {"num", "none"}

Malformed(f) == f.kind # "absent" /\ ~WellFormed(f)

InitLoad ==
    /\ z_in = DefaultThresholds[1]
    /\ z_out = DefaultThresholds[2]
    /\ z_stop = DefaultThresholds[3]
    /\ state_file = TRUE
    /\ file \in FileContents
    /\ machine = NewMachine
    /\ signal = NoSignal
    /\ last_op = "none"
    /\ wrote = FALSE
    /\ path = PathOff
    /\ rise = RiseOff
    /\ last_defined = None
    /\ single = NewMachine
    /\ single_signal = NoSignal
    /\ pc = "stopped"
    /\ observed = AbsentFile
    /\ bt = BacktestStart
    /\ sz = SizerStart
    /\ ct = CointStart
    /\ rb = BetaStart
    /\ run = RunStart

\* a process starts and constructs the machine from what is on disk
Start ==
    /\ pc = "stopped"
    /\ machine' = Construct(file)
    /\ observed' = file
    /\ pc' = "idle"
    /\ last_op' = "__init__"
    /\ wrote' = FALSE
    /\ UNCHANGED <<others, z_in, z_out, z_stop, state_file, file, signal, path, rise,
                   last_defined, single, single_signal>>

NextLoad == Start

SpecLoad == InitLoad /\ [][NextLoad]_vars

\* C7: constructing a machine from a malformed or partially written state
\* file leaves it NEUTRAL with no entry snapshot (and no other field loaded).
C7_FailClosed ==
    (last_op = "__init__" /\ Malformed(file)) =>
        /\ machine.current_state = NEUTRAL
        /\ NoEntry(machine)

----------------------------------------------------------------------------
(* save_state step by step, with the process stopping at any point and      *)
(* other processes reading the file (specification SpecCrash)               *)

InitCrash == Init /\ state_file

\* process_tick up to and including open(state_file, 'w') of its save_state,
\* which creates the file or cuts it to length zero; a tick that does not
\* save runs to its return
TickOpen(timestamp, zscore, beta) ==
    LET r == process_tick(machine, timestamp, zscore, beta)
    IN  /\ pc = "idle"
        /\ machine' = r.machine
        /\ signal' = r.signal
        /\ file' = IF r.save THEN EmptyFile ELSE file
        /\ pc' = IF r.save THEN "dump" ELSE "idle"
        /\ wrote' = FALSE
        /\ last_op' = "process_tick"
        /\ UNCHANGED <<others, z_in, z_out, z_stop, state_file, path, rise,
                       last_defined, single, single_signal, observed>>

\* json.dump and the close of the file: the text reaches the disk
Dump ==
    /\ pc = "dump"
    /\ file' = ObjectFile(state_data(machine))
    /\ pc' = "idle"
    /\ wrote' = TRUE
    /\ UNCHANGED <<others, z_in, z_out, z_stop, state_file, machine, signal, last_op,
                   path, rise, last_defined, single, single_signal, observed>>

\* the process stops (kill, power loss, exception) and its memory is gone
Stop ==
    /\ pc \in {"idle", "dump"}
    /\ pc' = "stopped"
    /\ machine' = NewMachine
    /\ last_op' = "stop"
    /\ wrote' = FALSE
    /\ UNCHANGED <<others, z_in, z_out, z_stop, state_file, file, signal, path, rise,
                   last_defined, single, single_signal, observed>>

\* another process opens the state file and reads it
ReadFile ==
    /\ observed' = file
    /\ UNCHANGED <<others, z_in, z_out, z_stop, state_file, machine, file, signal,
                   last_op, wrote, path, rise, last_defined, single,
                   single_signal, pc>>

NextCrash ==
    \/ \E timestamp \in Timestamps, zscore \in ZScores, beta \in Betas :
            TickOpen(timestamp, zscore, beta)
    \/ Dump
    \/ Stop
    \/ Start
    \/ ReadFile

SpecCrash == InitCrash /\ [][NextCrash]_vars

\* C8: what is read back from the state file is a complete snapshot (or no
\* file yet), never an empty or truncated file, also when the writer stopped
\* inside save_state or the read happens during the write.
C8_AtomicWrite ==
    observed.kind \in {"absent", "object"}

----------------------------------------------------------------------------
(* VectorizedBacktester (src/src/backtest/simulator.py).  run_backtest is    *)
(* modelled bar by bar: every column value at bar k is a function of the     *)
(* rows up to k (shift(1), diff, pct_change, cumsum and the two loops), so   *)
(* the state after k bars is the result of run_backtest on those k rows.     *)
(* Sequences are indexed from 1: bar k here is iloc[k-1] in the source.      *)

\* number of rows of signals_df
MaxBars == 4

initial_capital == 100000
fee_bps == 10
slippage_bps == 5
target_sigma_usd == 200
max_notional_per_leg == 25000

\* z-scores offered in the zscore column, in tenths
BarZScores == { NaN, Num(0), Num(21), Num(-21), Num(36) }

\* (eth_price, btc_price, beta, spread_std) offered in a row
Markets ==
    { [eth_price |-> Whole(2), btc_price |-> Whole(4),
       beta |-> Frac(1, 2), spread_std |-> Frac(1, 100)],
      [eth_price |-> Whole(3), btc_price |-> Whole(5),
       beta |-> Whole(2), spread_std |-> NaNF] }

Row(z, m) ==
    [zscore |-> z, eth_price |-> m.eth_price, btc_price |-> m.btc_price,
     beta |-> m.beta, spread_std |-> m.spread_std]

\* the 'signal' column of _generate_signals_vectorized at one bar; z_prev is
\* zscore.shift(1), NaN at the first bar and after an undefined bar
EntrySignal(z_prev, z) ==
    LET long_entry  == /\ ~isna(z_prev) /\ ~isna(z)
                       /\ z_prev[2] >= 0 - z_in /\ z[2] < 0 - z_in
        short_entry == /\ ~isna(z_prev) /\ ~isna(z)
                       /\ z_prev[2] <= z_in /\ z[2] > z_in
    IN  IF short_entry THEN 0 - 1 ELSE IF long_entry THEN 1 ELSE 0

\* one pass of the forward-fill loop of _generate_signals_vectorized
ForwardFill(position, sig, z) ==
    IF ~isna(z)
    THEN IF sig # 0 THEN sig
         ELSE IF position # 0 /\ (abs(z)[2] < z_out \/ abs(z)[2] > z_stop)
              THEN 0
              ELSE position
    ELSE position

\* eth_notional of _calculate_positions at one bar
EthNotional(position, spread_std) ==
    IF position # 0
    THEN Minimum(Div(Whole(target_sigma_usd), fillna(spread_std, One)),
                 Whole(max_notional_per_leg))
    ELSE Zero

\* btc_notional of _calculate_positions at one bar
BtcNotional(eth_notional, beta) == Mul(eth_notional, fillna(beta, One))

\* a variant of LegPnl that uses the units of the same bar
LegPnl_same_bar(units_prev, units, price, return) ==
    fillna(Mul(Mul(units, price), return), Zero)

\* eth_pnl / btc_pnl of _calculate_pnl at one bar: units.shift(1) * price *
\* pct_change, with NaN (first bar) filled by 0
LegPnl(units_prev, units, price, return) ==
    fillna(Mul(Mul(units_prev, price), return), Zero)

\* eth_trade_cost / btc_trade_cost of _calculate_pnl at one bar
TradeCost(units_change, price) ==
    Mul(AbsF(Mul(units_change, price)), Frac(fee_bps + slippage_bps, 10000))

\* a variant of TradePnl that leaves the entry bar out (iloc[start+1:end+1])
TradePnl_entry_excluded(total_pnl, start_idx, end_idx) ==
    SumF(total_pnl, start_idx + 1, end_idx)

\* a variant of TradePnl that leaves the exit bar out (iloc[start:end])
TradePnl_exit_excluded(total_pnl, start_idx, end_idx) ==
    SumF(total_pnl, start_idx, end_idx - 1)

\* current_trade['pnl'] of _extract_trades: total_pnl.iloc[start:end+1].sum()
TradePnl(total_pnl, start_idx, end_idx) == SumF(total_pnl, start_idx, end_idx)

\* one pass of the loop of _extract_trades, at bar k >= 2:
\* <<current_trade, trades>> after it
ExtractStep(current_trade, trades, prev_pos, curr_pos, k, total_pnl) ==
    IF prev_pos = 0 /\ curr_pos # 0
    THEN << [open |-> TRUE, entry |-> k,
             direction |-> IF curr_pos > 0 THEN "long_spread" ELSE "short_spread"],
            trades >>
    ELSE IF prev_pos # 0 /\ curr_pos = 0 /\ current_trade.open
    THEN << NoTrade,
            Append(trades, [entry |-> current_trade.entry,
                            exit |-> k,
                            direction |-> current_trade.direction,
                            pnl |-> TradePnl(total_pnl, current_trade.entry, k)]) >>
    ELSE << current_trade, trades >>

\* the columns after one more row
WithBar(b, row) ==
    LET k        == Len(b.bars) + 1
        first    == k = 1
        prev     == IF first THEN row ELSE b.bars[k - 1]
        z_prev   == IF first THEN NaN ELSE prev.zscore
        sig      == EntrySignal(z_prev, row.zscore)
        prev_pos == IF first THEN 0 ELSE b.position[k - 1]
        pos      == ForwardFill(prev_pos, sig, row.zscore)
        eth_n    == EthNotional(pos, row.spread_std)
        btc_n    == BtcNotional(eth_n, row.beta)
        eth_u    == Mul(Div(eth_n, row.eth_price), Whole(pos))
        btc_u    == Mul(Div(btc_n, row.btc_price), Whole(0 - pos))
        eth_up   == IF first THEN NaNF ELSE b.eth_units[k - 1]
        btc_up   == IF first THEN NaNF ELSE b.btc_units[k - 1]
        eth_ret  == IF first THEN NaNF
                    ELSE Div(Sub(row.eth_price, prev.eth_price), prev.eth_price)
        btc_ret  == IF first THEN NaNF
                    ELSE Div(Sub(row.btc_price, prev.btc_price), prev.btc_price)
        eth_chg  == fillna(Sub(eth_u, eth_up), eth_u)
        btc_chg  == fillna(Sub(btc_u, btc_up), btc_u)
        eth_p    == LegPnl(eth_up, eth_u, row.eth_price, eth_ret)
        btc_p    == LegPnl(btc_up, btc_u, row.btc_price, btc_ret)
        costs    == Neg(Add(TradeCost(eth_chg, row.eth_price),
                            TradeCost(btc_chg, row.btc_price)))
        total    == Add(Add(eth_p, btc_p), costs)
        totals   == Append(b.total_pnl, total)
        equity   == Add(IF first THEN Whole(initial_capital)
                                 ELSE b.equity_curve[k - 1], total)
        ex       == IF first THEN <<b.current_trade, b.trades>>
                    ELSE ExtractStep(b.current_trade, b.trades, prev_pos, pos,
                                     k, totals)
        tick     == process_tick(b.sm, Datetime(1), row.zscore, Num(1))
    IN  [bars |-> Append(b.bars, row),
         signal |-> Append(b.signal, sig),
         position |-> Append(b.position, pos),
         eth_notional |-> Append(b.eth_notional, eth_n),
         btc_notional |-> Append(b.btc_notional, btc_n),
         eth_units |-> Append(b.eth_units, eth_u),
         btc_units |-> Append(b.btc_units, btc_u),
         eth_pnl |-> Append(b.eth_pnl, eth_p),
         btc_pnl |-> Append(b.btc_pnl, btc_p),
         trade_costs |-> Append(b.trade_costs, costs),
         total_pnl |-> totals,
         equity_curve |-> Append(b.equity_curve, equity),
         current_trade |-> ex[1],
         trades |-> ex[2],
         sm |-> tick.machine,
         sm_state |-> Append(b.sm_state, tick.machine.current_state)]

\* the variables of the state machine part, which a backtest does not touch
machine_vars == <<z_in, z_out, z_stop, state_file, machine, file, signal,
                  last_op, wrote, path, rise, last_defined, single,
                  single_signal, pc, observed>>

\* run_backtest with the default thresholds; the state machine of bt.sm has
\* no state file
InitBacktest ==
    /\ Init
    /\ thresholds = DefaultThresholds
    /\ ~state_file

\* signals_df has one more row
AddBar(z, m) ==
    /\ Len(bt.bars) < MaxBars
    /\ bt' = WithBar(bt, Row(z, m))
    /\ UNCHANGED <<machine_vars, sz, ct, rb, run>>

NextBacktest == \E z \in BarZScores, m \in Markets : AddBar(z, m)

SpecBacktest == InitBacktest /\ [][NextBacktest]_vars

Bars == 1..Len(bt.bars)

\* a position is opened at bar k
OpenedAt(k) == bt.position[k] # 0 /\ (k = 1 \/ bt.position[k - 1] = 0)

\* C11, as stated: a position entered at bar k contributes nothing to the
\* total_pnl of bar k (and so nothing to the equity change of bar k).
C11_NoPnlAtEntryBar ==
    \A k \in Bars : OpenedAt(k) => bt.total_pnl[k] = Zero

\* C11, amended: a position entered at bar k contributes nothing to the leg
\* P&L (eth_pnl, btc_pnl) of bar k, the total_pnl of bar k being minus the
\* cost of the trades of bar k; the leg P&L of a bar is zero when no units
\* were held at the bar before, whatever is held at the bar itself; and a
\* leg held with nonzero units at bar k-1 whose price moved has a nonzero
\* P&L at bar k.
C11_PnlFromNextBar ==
    \A k \in Bars :
        /\ OpenedAt(k) =>
              /\ bt.eth_pnl[k] = Zero /\ bt.btc_pnl[k] = Zero
              /\ bt.total_pnl[k] = bt.trade_costs[k]
              /\ Lt(bt.trade_costs[k], Zero)
        /\ k > 1 /\ bt.eth_units[k - 1] = Zero => bt.eth_pnl[k] = Zero
        /\ k > 1 /\ bt.btc_units[k - 1] = Zero => bt.btc_pnl[k] = Zero
        /\ k > 1 /\ bt.eth_units[k - 1] # Zero
                 /\ bt.bars[k].eth_price # bt.bars[k - 1].eth_price
              => bt.eth_pnl[k] # Zero
        /\ k > 1 /\ bt.btc_units[k - 1] # Zero
                 /\ bt.bars[k].btc_price # bt.bars[k - 1].btc_price
              => bt.btc_pnl[k] # Zero

\* a position is entered at a bar where both prices moved, and is held over a
\* further bar where both prices moved
C11_Witness ==
    \E k \in Bars :
        /\ k > 1 /\ k < Len(bt.bars)
        /\ OpenedAt(k)
        /\ bt.bars[k].eth_price # bt.bars[k - 1].eth_price
        /\ bt.bars[k].eth_price # bt.bars[k + 1].eth_price
        /\ bt.position[k + 1] # 0
        /\ bt.eth_pnl[k + 1] # Zero /\ bt.btc_pnl[k + 1] # Zero

\* the state a TradingStateMachine holds for a backtest position
StateOfPosition(position) ==
    IF position > 0 THEN LONG_SPREAD
    ELSE IF position < 0 THEN SHORT_SPREAD ELSE NEUTRAL

\* C12: at every bar the backtester's position is the state that a
\* TradingStateMachine started in Neutral holds after the ticks of the same
\* z-scores; a position is never flipped from long to short or back, and
\* |z| > z_stop flattens an open position.
C12_BacktestMatchesStateMachine ==
    \A k \in Bars :
        /\ StateOfPosition(bt.position[k]) = bt.sm_state[k]
        /\ k > 1 => bt.position[k] * bt.position[k - 1] >= 0
        /\ k > 1 /\ bt.position[k - 1] # 0 /\ ~isna(bt.bars[k].zscore)
                 /\ abs(bt.bars[k].zscore)[2] > z_stop
              => bt.position[k] = 0

\* C13: the P&L of every trade of the ledger is the sum, over the bars from
\* its entry bar through its exit bar, of the leg P&L minus the trade costs.
C13_TradePnlIsSumOfBars ==
    \A j \in 1..Len(bt.trades) :
        LET t == bt.trades[j]
            net == [k \in Bars |->
                       Add(Add(bt.eth_pnl[k], bt.btc_pnl[k]), bt.trade_costs[k])]
        IN  /\ t.entry < t.exit /\ t.exit <= Len(bt.bars)
            /\ t.pnl = SumF(net, t.entry, t.exit)

\* a trade held over a bar where prices moved is closed at a bar where prices
\* moved again: its P&L holds the entry cost, the exit cost and both moves
C13_Witness ==
    \E j \in 1..Len(bt.trades) :
        LET t == bt.trades[j]
        IN  /\ t.exit = t.entry + 2
            /\ \A k \in (t.entry + 1)..t.exit :
                   /\ bt.eth_pnl[k] # Zero
                   /\ Lt(bt.trade_costs[k], Zero) \/ k < t.exit
            /\ Lt(bt.trade_costs[t.entry], Zero)
            /\ t.pnl # Zero

\* the first bars of the maximal runs of bars with a non-neutral position, in
\* order
RunStarts == { k \in Bars : OpenedAt(k) }

\* the first flat bar after bar k, or 0 when the position stays open
FirstFlatAfter(k) ==
    LET flat == { i \in Bars : i > k /\ bt.position[i] = 0 }
    IN  IF flat = {} THEN 0 ELSE CHOOSE i \in flat : \A o \in flat : i <= o

\* C14: the ledger holds exactly one trade for every maximal run of bars with
\* a non-neutral position, in order of entry, entered at the first bar of the
\* run and closed at the first flat bar after it; a run still open at the
\* last bar has its trade too.
C14_OneTradePerRun ==
    /\ Len(bt.trades) = Cardinality(RunStarts)
    /\ \A j \in 1..Len(bt.trades) :
           /\ bt.trades[j].entry \in RunStarts
           /\ Cardinality({ k \in RunStarts : k < bt.trades[j].entry }) = j - 1
           /\ bt.trades[j].exit = FirstFlatAfter(bt.trades[j].entry)

----------------------------------------------------------------------------
(* VolatilityTargetingSizer (src/src/strategy/sizing.py).  The sizer of the  *)
(* scanners is built with target_sigma_usd 200, max_notional_per_leg 25000,  *)
(* fee_bps 10 and slippage_bps 5, the values of its own defaults and of the  *)
(* backtester's.                                                             *)

min_notional_per_leg == 100
max_adv_fraction == Frac(5, 100)

\* None where a float is optional
NoneF == <<0, 0 - 1>>

\* float ==: false when either side is NaN
EqF(x, y) == ~IsNaN(x) /\ ~IsNaN(y) /\ x = y

\* Python's min(a, b): b if b < a else a
PyMin(a, b) == IF Lt(b, a) THEN b ELSE a

\* the truth value of an optional float: None and 0.0 are false
TruthyF(x) == x # NoneF /\ x # Zero

Sizer_betas == { NaNF, Zero, Frac(1, 2), Whole(2), Whole(0 - 1) }
Sizer_spread_stds ==
    { NaNF, Zero, Whole(0 - 1), Frac(1, 1000), Frac(1, 100), Whole(1), Whole(4) }
Sizer_prices == { Zero, Whole(4) }
Sizer_advs == { NoneF, Zero, Whole(100000), Whole(1000000) }
Sizer_capitals == { NoneF, Whole(100000) }

\* a variant of EthNotionalBase that tests spread_std != 0
EthNotionalBase_nonzero(spread_std) ==
    IF spread_std # Zero THEN Div(Whole(target_sigma_usd), spread_std) ELSE Zero

\* eth_notional_base: target_sigma_usd / spread_std if spread_std > 0 else 0
EthNotionalBase(spread_std) ==
    IF Gt(spread_std, Zero) THEN Div(Whole(target_sigma_usd), spread_std) ELSE Zero

\* "Apply position limits" and "Maintain hedge ratio after limiting":
\* <<eth_notional, btc_notional>>; a division by zero gives inf here, the
\* caller decides whether it raises
PositionLimits(eth_base, btc_base) ==
    LET max == Whole(max_notional_per_leg)
        eth == PyMin(eth_base, max)
        btc == PyMin(btc_base, max)
    IN  IF Lt(eth, eth_base) \/ Lt(btc, btc_base)
        THEN LET scale == PyMin(Div(max, eth_base), Div(max, btc_base))
             IN  << Mul(eth_base, scale), Mul(btc_base, scale) >>
        ELSE << eth, btc >>

\* the division of "scale = min(...)" is reached with a zero divisor
LimitsDivideByZero(eth_base, btc_base) ==
    LET max == Whole(max_notional_per_leg)
    IN  /\ Lt(PyMin(eth_base, max), eth_base) \/ Lt(PyMin(btc_base, max), btc_base)
        /\ eth_base = Zero \/ btc_base = Zero

\* "Apply ADV constraints if provided" for one leg: <<leg, other leg>>
ADVConstraint(leg, other, adv_usd) ==
    IF TruthyF(adv_usd) /\ Gt(adv_usd, Zero)
    THEN LET max_leg == Mul(adv_usd, max_adv_fraction)
         IN  IF Gt(leg, max_leg)
             THEN LET scale == Div(max_leg, leg)
                  IN  << Mul(leg, scale), Mul(other, scale) >>
             ELSE << leg, other >>
    ELSE << leg, other >>

\* "Check minimum size": <<eth_notional, btc_notional>>
MinimumSize(eth, btc) ==
    IF Lt(eth, Whole(min_notional_per_leg)) \/ Lt(btc, Whole(min_notional_per_leg))
    THEN << Zero, Zero >>
    ELSE << eth, btc >>

\* the call and its PositionSize; numpy tells that beta or spread_std is a
\* numpy float64, whose division by zero gives inf where a Python float raises
\* ZeroDivisionError
calculate_position_size(numpy, beta, spread_std, btc_price, eth_price, btc_adv_usd, eth_adv_usd, capital) ==
    LET eth_base == EthNotionalBase(spread_std)
        btc_base == Mul(eth_base, beta)
        limited  == PositionLimits(eth_base, btc_base)
        by_btc   == ADVConstraint(limited[2], limited[1], btc_adv_usd)
        by_eth   == ADVConstraint(by_btc[2], by_btc[1], eth_adv_usd)
        sized    == MinimumSize(by_eth[1], by_eth[2])
        eth      == sized[1]
        btc      == sized[2]
        total    == Add(eth, btc)
        raised   == ~numpy /\ LimitsDivideByZero(eth_base, btc_base)
        ret(x)   == IF raised THEN Zero ELSE x
    IN  [called |-> TRUE, numpy |-> numpy, beta |-> beta,
         spread_std |-> spread_std, btc_price |-> btc_price,
         eth_price |-> eth_price, btc_adv_usd |-> btc_adv_usd,
         eth_adv_usd |-> eth_adv_usd, capital |-> capital,
         raised |-> raised,
         eth_notional_usd |-> ret(eth),
         btc_notional_usd |-> ret(btc),
         eth_units |-> ret(IF Gt(eth_price, Zero) THEN Div(eth, eth_price) ELSE Zero),
         btc_units |-> ret(IF Gt(btc_price, Zero) THEN Div(btc, btc_price) ELSE Zero),
         total_notional |-> ret(total),
         leverage |-> ret(IF TruthyF(capital) /\ Gt(capital, Zero)
                          THEN Div(total, capital) ELSE Zero),
         expected_fees |-> ret(Mul(total, Frac(fee_bps, 10000))),
         expected_slippage |-> ret(Mul(total, Frac(slippage_bps, 10000))),
         risk_per_zscore |-> ret(IF Gt(spread_std, Zero)
                                 THEN Mul(eth, spread_std) ELSE Zero)]

\* the arguments of a call that has not been made yet
SizerCall(numpy, beta, spread_std, btc_price, eth_price, btc_adv_usd, eth_adv_usd, capital) ==
    [SizerStart EXCEPT !.numpy = numpy, !.beta = beta,
                       !.spread_std = spread_std, !.btc_price = btc_price,
                       !.eth_price = eth_price, !.btc_adv_usd = btc_adv_usd,
                       !.eth_adv_usd = eth_adv_usd, !.capital = capital]

\* a sizer with the default parameters and the arguments of one call
InitSizer ==
    /\ InitStateMachine
    /\ thresholds = DefaultThresholds
    /\ ~state_file
    /\ bt = BacktestStart
    /\ ct = CointStart
    /\ rb = BetaStart
    /\ run = RunStart
    /\ \E numpy \in BOOLEAN, beta \in Sizer_betas,
          spread_std \in Sizer_spread_stds,
          btc_price \in Sizer_prices, eth_price \in Sizer_prices,
          btc_adv_usd \in Sizer_advs, eth_adv_usd \in Sizer_advs,
          capital \in Sizer_capitals :
           sz = SizerCall(numpy, beta, spread_std, btc_price, eth_price,
                          btc_adv_usd, eth_adv_usd, capital)

\* the call of calculate_position_size
CalculatePositionSize ==
    /\ ~sz.called
    /\ sz' = calculate_position_size(sz.numpy, sz.beta, sz.spread_std,
                                     sz.btc_price, sz.eth_price,
                                     sz.btc_adv_usd, sz.eth_adv_usd, sz.capital)
    /\ UNCHANGED <<machine_vars, bt, ct, rb, run>>

NextSizer == CalculatePositionSize

SpecSizer == InitSizer /\ [][NextSizer]_vars

\* calculate_position_size has returned a PositionSize
Returned == sz.called /\ ~sz.raised

\* C15: with a spread standard deviation that is 0, negative or NaN, the call
\* returns zero notional and zero units for both legs, whatever beta is.
C15_ZeroOnDegenerateStd ==
    sz.called /\ ~Gt(sz.spread_std, Zero)
        => /\ ~sz.raised
           /\ sz.eth_notional_usd = Zero /\ sz.btc_notional_usd = Zero
           /\ sz.eth_units = Zero /\ sz.btc_units = Zero

\* the call was made with a NaN spread standard deviation, a nonzero beta and
\* positive prices
C15_Witness ==
    /\ Returned /\ IsNaN(sz.spread_std) /\ sz.beta = Whole(2)
    /\ Gt(sz.eth_price, Zero) /\ Gt(sz.btc_price, Zero)
    /\ sz.eth_notional_usd = Zero

\* C16: every returned result has both leg notionals zero or both at least
\* min_notional_per_leg.
C16_BothLegsOrNone ==
    Returned =>
        \/ sz.eth_notional_usd = Zero /\ sz.btc_notional_usd = Zero
        \/ /\ Ge(sz.eth_notional_usd, Whole(min_notional_per_leg))
           /\ Ge(sz.btc_notional_usd, Whole(min_notional_per_leg))

\* C17: no returned leg notional exceeds max_notional_per_leg, and in a
\* nonzero result the independent (btc) notional equals beta times the
\* dependent (eth) notional.
C17_CapKeepsHedgeRatio ==
    Returned =>
        /\ ~Gt(sz.eth_notional_usd, Whole(max_notional_per_leg))
        /\ ~Gt(sz.btc_notional_usd, Whole(max_notional_per_leg))
        /\ ~(sz.eth_notional_usd = Zero /\ sz.btc_notional_usd = Zero)
              => EqF(sz.btc_notional_usd, Mul(sz.beta, sz.eth_notional_usd))

\* C18: when an ADV is supplied for a leg, 0 included, the leg's returned
\* notional is at most max_adv_fraction times the ADV.
C18_ADVCap ==
    Returned =>
        /\ sz.btc_adv_usd # NoneF
              => Le(sz.btc_notional_usd, Mul(sz.btc_adv_usd, max_adv_fraction))
        /\ sz.eth_adv_usd # NoneF
              => Le(sz.eth_notional_usd, Mul(sz.eth_adv_usd, max_adv_fraction))

----------------------------------------------------------------------------
(* CointegrationTester (src/src/features/cointegration.py).  The results of  *)
(* the statistical library (coint, OLS, adfuller) and of the two estimators  *)
(* built on it are inputs of the model: any p-value, half-life and Hurst     *)
(* exponent, NaN included, or an exception.                                  *)

adf_threshold == Frac(5, 100)
min_half_life == 1
max_half_life == 30
lookback_window == 500
min_observations == 100

Coint_lengths == { lookback_window - 1, lookback_window }
Coint_nans == { 0, 1, lookback_window - min_observations + 1 }
Coint_pvalues == { NaNF, Frac(1, 100), Frac(5, 100), Frac(1, 2) }
Coint_half_lives ==
    { NoneF, NaNF, Frac(1, 2), One, Whole(10), Whole(30), Whole(31) }
Coint_hursts == { NoneF, Frac(3, 10), Frac(7, 10) }

\* a variant of Tradeable that lets the half-life be undefined
Tradeable_without_half_life(adf_pvalue, eg_pvalue, half_life) ==
    /\ Lt(adf_pvalue, adf_threshold)
    /\ Lt(eg_pvalue, adf_threshold)
    /\ \/ half_life = NoneF
       \/ /\ Le(Whole(min_half_life), half_life)
          /\ Le(half_life, Whole(max_half_life))

\* "Determine if pair is tradeable"
Tradeable(adf_pvalue, eg_pvalue, half_life) ==
    /\ Lt(adf_pvalue, adf_threshold)
    /\ Lt(eg_pvalue, adf_threshold)
    /\ half_life # NoneF
    /\ Le(Whole(min_half_life), half_life)
    /\ Le(half_life, Whole(max_half_life))

ADFTooHigh == "ADF p-value too high"
EGTooHigh == "Engle-Granger p-value too high"
NoHalfLife == "Could not calculate half-life"
HalfLifeTooShort == "Half-life too short"
HalfLifeTooLong == "Half-life too long"
Unknown == "Unknown"

\* _get_rejection_reason: the reasons that "; ".join puts in one string, or
\* "Unknown"
_get_rejection_reason(adf_pvalue, eg_pvalue, half_life) ==
    LET adf == IF Ge(adf_pvalue, adf_threshold) THEN <<ADFTooHigh>> ELSE <<>>
        eg  == IF Ge(eg_pvalue, adf_threshold) THEN <<EGTooHigh>> ELSE <<>>
        hl  == IF half_life = NoneF THEN <<NoHalfLife>>
               ELSE IF Lt(half_life, Whole(min_half_life)) THEN <<HalfLifeTooShort>>
               ELSE IF Gt(half_life, Whole(max_half_life)) THEN <<HalfLifeTooLong>>
               ELSE <<>>
        reasons == adf \o eg \o hl
    IN  IF reasons # <<>> THEN reasons ELSE <<Unknown>>

\* test_cointegration on series of the given lengths, with nans rows of the
\* last lookback_window that hold a NaN; raises tells that a statistical test
\* raises, the other arguments are what the tests return
test_cointegration(len_price1, len_price2, nans, raises, adf_pvalue, eg_pvalue, half_life, hurst) ==
    LET call == [CointStart EXCEPT !.called = TRUE,
                     !.len_price1 = len_price1, !.len_price2 = len_price2,
                     !.nans = nans, !.raises = raises,
                     !.adf_pvalue = adf_pvalue, !.eg_pvalue = eg_pvalue,
                     !.half_life = half_life, !.hurst = hurst]
        is_cointegrated == Tradeable(adf_pvalue, eg_pvalue, half_life)
    IN  IF len_price1 < lookback_window \/ len_price2 < lookback_window
        THEN [call EXCEPT !.reason = <<"Insufficient data">>]
        ELSE IF lookback_window - nans < min_observations
        THEN [call EXCEPT !.reason = <<"Too many NaN values">>]
        ELSE IF raises
        THEN [call EXCEPT !.reason = <<"Test failed">>]
        ELSE [call EXCEPT !.tested = TRUE,
                          !.is_cointegrated = is_cointegrated,
                          !.reason = IF is_cointegrated
                                     THEN <<"Passed all tests">>
                                     ELSE _get_rejection_reason(
                                              adf_pvalue, eg_pvalue, half_life)]

\* a tester with the default parameters and the inputs of one call
InitCoint ==
    /\ InitStateMachine
    /\ thresholds = DefaultThresholds
    /\ ~state_file
    /\ bt = BacktestStart
    /\ sz = SizerStart
    /\ rb = BetaStart
    /\ run = RunStart
    /\ \E len_price1 \in Coint_lengths, len_price2 \in Coint_lengths,
          nans \in Coint_nans, raises \in BOOLEAN,
          adf_pvalue \in Coint_pvalues, eg_pvalue \in Coint_pvalues,
          half_life \in Coint_half_lives, hurst \in Coint_hursts :
           ct = [CointStart EXCEPT
                     !.len_price1 = len_price1, !.len_price2 = len_price2,
                     !.nans = nans, !.raises = raises,
                     !.adf_pvalue = adf_pvalue, !.eg_pvalue = eg_pvalue,
                     !.half_life = half_life, !.hurst = hurst]

\* the call of test_cointegration
TestCointegration ==
    /\ ~ct.called
    /\ ct' = test_cointegration(ct.len_price1, ct.len_price2, ct.nans,
                                ct.raises, ct.adf_pvalue, ct.eg_pvalue,
                                ct.half_life, ct.hurst)
    /\ UNCHANGED <<machine_vars, bt, sz, rb, run>>

NextCoint == TestCointegration

SpecCoint == InitCoint /\ [][NextCoint]_vars

\* the half-life is a number of [min_half_life, max_half_life]
HalfLifeInRange(half_life) ==
    /\ half_life # NoneF /\ ~IsNaN(half_life)
    /\ ~Lt(half_life, Whole(min_half_life))
    /\ ~Gt(half_life, Whole(max_half_life))

\* C19: a call that ran the tests returns is_cointegrated = true exactly when
\* both p-values are below adf_threshold and the half-life is defined and in
\* [min_half_life, max_half_life], whatever the Hurst exponent is; a call
\* that did not run them returns false.
C19_DecisionRule ==
    ct.called =>
        ct.is_cointegrated <=>
            /\ ct.tested
            /\ ~IsNaN(ct.adf_pvalue) /\ ~Ge(ct.adf_pvalue, adf_threshold)
            /\ ~IsNaN(ct.eg_pvalue) /\ ~Ge(ct.eg_pvalue, adf_threshold)
            /\ HalfLifeInRange(ct.half_life)

\* a pair passes with a half-life at the upper limit and a Hurst exponent
\* above 0.5
C19_Witness ==
    /\ ct.called /\ ct.is_cointegrated
    /\ ct.half_life = Whole(max_half_life)
    /\ ct.hurst = Frac(7, 10)

\* C20: a rejection by the tests names every failing condition and is never
\* empty or "Unknown", also when a p-value or the half-life is NaN.
C20_ReasonNamesEveryFailure ==
    ct.called /\ ct.tested /\ ~ct.is_cointegrated =>
        LET named == { ct.reason[i] : i \in 1..Len(ct.reason) }
        IN  /\ ct.reason # <<>>
            /\ Unknown \notin named
            /\ ~Lt(ct.adf_pvalue, adf_threshold) => ADFTooHigh \in named
            /\ ~Lt(ct.eg_pvalue, adf_threshold) => EGTooHigh \in named
            /\ ~HalfLifeInRange(ct.half_life)
                  => named \cap {NoHalfLife, HalfLifeTooShort, HalfLifeTooLong} # {}

\* the observations of the last lookback_window rows that are left after the
\* rows with a NaN are removed
Remaining == lookback_window - ct.nans

\* C21: the statistical tests run only when both series have lookback_window
\* rows and at least lookback_window observations remain after NaN removal;
\* otherwise, and when fewer than min_observations remain, the call returns
\* is_cointegrated = false with the reason "Insufficient data".
C21_TestsNeedLookbackObservations ==
    ct.called =>
        LET enough == /\ ct.len_price1 >= lookback_window
                      /\ ct.len_price2 >= lookback_window
                      /\ Remaining >= lookback_window
        IN  /\ ct.tested => enough
            /\ ~enough => /\ ~ct.is_cointegrated
                          /\ ct.reason = <<"Insufficient data">>

----------------------------------------------------------------------------
(* HedgeRatioCalculator.rolling_beta (src/src/features/beta.py).  The two    *)
(* series have one value per input timestamp 1..n, NaN where the observation *)
(* is missing; the result is a series over the timestamps that dropna keeps. *)

\* number of input timestamps
MaxRows == 4

\* (logp_x, logp_y) offered at a timestamp
BetaRows ==
    { <<NaNF, One>>, <<One, NaNF>>, <<One, One>>,
      <<Whole(2), Whole(3)>>, <<Whole(3), Whole(5)>> }

Beta_windows == { 2, 3 }

\* min_periods: 0 stands for None
Beta_min_periods == { 0, 1 }

\* the index of pd.DataFrame({'x': logp_x, 'y': logp_y}).dropna(): the
\* timestamps where both series have an observation, in order
Aligned(logp_x, logp_y) ==
    SelectSeq([i \in 1..Len(logp_x) |-> i],
              LAMBDA i : ~IsNaN(logp_x[i]) /\ ~IsNaN(logp_y[i]))

\* np.mean of s[a..b]
MeanF(s, a, b) == Div(SumF(s, a, b), Whole(b - a + 1))

\* var_x > 1e-10: every positive float of the model is n/d with d < 2^31,
\* which is above 1e-10
AboveTiny(v) == Gt(v, Zero)

\* one pass of the loop of _calculate_rolling_beta_numba over x[a..b], y[a..b]
\* (b - a + 1 = window): cov_xy / var_x, or NaN when var_x is not above 1e-10
WindowBeta(x, y, a, b) ==
    LET x_mean == MeanF(x, a, b)
        y_mean == MeanF(y, a, b)
        dx == [k \in 1..Len(x) |-> Sub(x[k], x_mean)]
        dy == [k \in 1..Len(y) |-> Sub(y[k], y_mean)]
        cov_xy == Div(SumF([k \in 1..Len(x) |-> Mul(dx[k], dy[k])], a, b), Whole(b - a))
        var_x == Div(SumF([k \in 1..Len(x) |-> Mul(dx[k], dx[k])], a, b), Whole(b - a))
    IN  IF AboveTiny(var_x) THEN Div(cov_xy, var_x) ELSE NaNF

\* _calculate_rolling_beta_numba on arrays without NaN
_calculate_rolling_beta_numba(x, y, window) ==
    [k \in 1..Len(x) |-> IF k < window THEN NaNF
                         ELSE WindowBeta(x, y, k - window + 1, k)]

\* rolling_beta: the index and the values of the Series it returns
rolling_beta(logp_x, logp_y, window, min_periods) ==
    LET index == Aligned(logp_x, logp_y)
        x == [k \in 1..Len(index) |-> logp_x[index[k]]]
        y == [k \in 1..Len(index) |-> logp_y[index[k]]]
        periods == IF min_periods = 0 THEN window ELSE min_periods
    IN  [called |-> TRUE, logp_x |-> logp_x, logp_y |-> logp_y,
         window |-> window, min_periods |-> min_periods,
         index |-> index,
         beta |-> IF Len(index) < periods
                  THEN [k \in 1..Len(index) |-> NaNF]
                  ELSE _calculate_rolling_beta_numba(x, y, window)]

\* the series of up to MaxRows rows
BetaSeries == UNION { [1..n -> BetaRows] : n \in 0..MaxRows }

\* the arguments of one call of rolling_beta
InitBeta ==
    /\ InitStateMachine
    /\ thresholds = DefaultThresholds
    /\ ~state_file
    /\ bt = BacktestStart
    /\ sz = SizerStart
    /\ ct = CointStart
    /\ run = RunStart
    /\ \E rows \in BetaSeries, window \in Beta_windows,
          min_periods \in Beta_min_periods :
           rb = [BetaStart EXCEPT
                    !.logp_x = [i \in 1..Len(rows) |-> rows[i][1]],
                    !.logp_y = [i \in 1..Len(rows) |-> rows[i][2]],
                    !.window = window, !.min_periods = min_periods]

\* the call of rolling_beta
RollingBeta ==
    /\ ~rb.called
    /\ rb' = rolling_beta(rb.logp_x, rb.logp_y, rb.window, rb.min_periods)
    /\ UNCHANGED <<machine_vars, bt, sz, ct, run>>

NextBeta == RollingBeta

SpecBeta == InitBeta /\ [][NextBeta]_vars

\* the beta the returned series has at input timestamp i: NaN when it is NaN
\* there and when the series has no entry for i
BetaAt(i) ==
    LET at == { k \in 1..Len(rb.index) : rb.index[k] = i }
    IN  IF at = {} THEN NaNF ELSE rb.beta[CHOOSE k \in at : TRUE]

\* C22: the beta at input timestamp i is absent when one of the window
\* consecutive input timestamps ending at i has a missing observation in
\* either series, and at the first window-1 timestamps.
C22_NoBetaAcrossGaps ==
    rb.called =>
        \A i \in 1..Len(rb.logp_x) :
            \/ i < rb.window
            \/ \E j \in (i - rb.window + 1)..i :
                   IsNaN(rb.logp_x[j]) \/ IsNaN(rb.logp_y[j])
            => IsNaN(BetaAt(i))

----------------------------------------------------------------------------
(* One process_tick per process run (specification SpecReload), as           *)
(* Scanner.run does: `signal` is the signal of the run before.               *)

\* the machine the run constructs from the state file is NEUTRAL, and the
\* run before was fed a z-score within [-z_in, z_in]
NeutralAfterQuietRun ==
    /\ last_op = "process_tick"
    /\ Construct(file).current_state = NEUTRAL
    /\ ~isna(signal.zscore)
    /\ signal.zscore[2] >= 0 - z_in /\ signal.zscore[2] <= z_in

\* C23: with one process_tick per process run and the state file as the only
\* state carried over, a run that finds the pair NEUTRAL after a run whose
\* z-score was within [-z_in, z_in] returns ENTER_SHORT_SPREAD when its
\* z-score is above z_in and ENTER_LONG_SPREAD when it is below -z_in.
C23_CrossingAcrossRuns ==
    [][ NeutralAfterQuietRun /\ ~isna(signal'.zscore) =>
          /\ signal'.zscore[2] > z_in
                => signal'.signal_type = ENTER_SHORT_SPREAD
          /\ signal'.zscore[2] < 0 - z_in
                => signal'.signal_type = ENTER_LONG_SPREAD ]_vars

----------------------------------------------------------------------------
(* The entry snapshot and the chain of signals (specification Spec) *)

\* the three entry fields are set
HasEntry(m) ==
    /\ m.entry_zscore # None
    /\ m.entry_timestamp # None
    /\ m.entry_beta # None

SameEntry(m, n) ==
    /\ m.entry_zscore = n.entry_zscore
    /\ m.entry_timestamp = n.entry_timestamp
    /\ m.entry_beta = n.entry_beta

\* C24: in every state reached by calls of process_tick and reset (and by
\* constructing the machine again from its state file) the entry snapshot is
\* set in LONG_SPREAD and SHORT_SPREAD and empty in NEUTRAL; the tick that
\* opens a position stores its own z-score, timestamp and beta, and the
\* snapshot does not change while the position is held.
C24_EntrySnapshot ==
    /\ [](IF IsPosition(machine.current_state)
          THEN HasEntry(machine) ELSE NoEntry(machine))
    /\ [][ /\ (TickStep /\ ~IsPosition(machine.current_state)
                        /\ IsPosition(machine'.current_state)) =>
                  /\ machine'.entry_zscore = signal'.zscore
                  /\ \E timestamp \in Timestamps, beta \in Betas :
                        /\ machine' = process_tick(machine, timestamp,
                                                   signal'.zscore, beta).machine
                        /\ machine'.entry_timestamp = timestamp
                        /\ machine'.entry_beta = beta
           /\ (IsPosition(machine.current_state)
                   /\ IsPosition(machine'.current_state)) =>
                  SameEntry(machine, machine') ]_vars

\* a position opened at one tick has been held over a later tick with another
\* z-score, at another instant
C24_Witness ==
    /\ last_op = "process_tick"
    /\ signal.signal_type = NO_ACTION
    /\ machine.current_state = SHORT_SPREAD
    /\ machine.entry_timestamp = Datetime(1)
    /\ machine.entry_zscore # machine.previous_zscore

\* C25: every signal of process_tick has the state before the tick as
\* previous_state and the state after it as new_state, so that between two
\* consecutive ticks of one instance previous_state is the new_state of the
\* signal before; ENTER_LONG_SPREAD goes from NEUTRAL to LONG_SPREAD,
\* ENTER_SHORT_SPREAD from NEUTRAL to SHORT_SPREAD, EXIT_POSITION and
\* STOP_LOSS from a position to NEUTRAL, NO_ACTION keeps the state; no tick
\* goes from LONG_SPREAD to SHORT_SPREAD or back.  (reset and a new
\* construction start a new sequence.)
C25_SignalChain ==
    [][ TickStep =>
          LET kind == signal'.signal_type
              from == signal'.previous_state
              to   == signal'.new_state
          IN  /\ from = machine.current_state
              /\ to = machine'.current_state
              /\ (last_op = "process_tick") => from = signal.new_state
              /\ kind = ENTER_LONG_SPREAD => from = NEUTRAL /\ to = LONG_SPREAD
              /\ kind = ENTER_SHORT_SPREAD => from = NEUTRAL /\ to = SHORT_SPREAD
              /\ kind \in {EXIT_POSITION, STOP_LOSS} =>
                     IsPosition(from) /\ to = NEUTRAL
              /\ kind = NO_ACTION => to = from
              /\ ~(IsPosition(from) /\ IsPosition(to) /\ from # to) ]_vars

\* a stop loss closes, at the next tick of the same instance, the long
\* position that the signal before opened
C25_Witness ==
    /\ last_op = "process_tick"
    /\ signal.signal_type = STOP_LOSS
    /\ signal.previous_state = LONG_SPREAD
    /\ machine.current_state = NEUTRAL
    /\ machine.previous_zscore = signal.zscore

----------------------------------------------------------------------------
(* Further properties of calculate_position_size (specification SpecSizer) *)

\* C26: for every finite beta, 0 included, and every spread standard
\* deviation the call returns without raising; with beta = 0 and a dependent
\* base notional above max_notional_per_leg it returns zero notional for both
\* legs.
C26_NoRaise ==
    sz.called /\ IsFinite(sz.beta) =>
        /\ ~sz.raised
        /\ (sz.beta = Zero
              /\ Gt(EthNotionalBase(sz.spread_std), Whole(max_notional_per_leg)))
              => sz.eth_notional_usd = Zero /\ sz.btc_notional_usd = Zero

----------------------------------------------------------------------------
(* Further properties of run_backtest (specification SpecBacktest) *)

\* C27: at every bar with a position the notionals of _calculate_positions
\* follow the rules of the sizer for the bar's beta and spread_std: the
\* dependent (eth) leg is zero when spread_std is undefined or <= 0 and
\* target_sigma_usd / spread_std when that is within the cap, the independent
\* (btc) leg is beta times the dependent leg, and neither leg exceeds
\* max_notional_per_leg.
C27_NotionalsFollowSizer ==
    \A k \in Bars :
        bt.position[k] # 0 =>
            LET row  == bt.bars[k]
                base == EthNotionalBase(row.spread_std)
                max  == Whole(max_notional_per_leg)
            IN  /\ ~Gt(row.spread_std, Zero) => bt.eth_notional[k] = Zero
                /\ (Gt(row.spread_std, Zero) /\ Le(base, max)
                        /\ Le(Mul(base, row.beta), max))
                      => bt.eth_notional[k] = base
                /\ EqF(bt.btc_notional[k], Mul(row.beta, bt.eth_notional[k]))
                /\ ~Gt(bt.eth_notional[k], max)
                /\ ~Gt(bt.btc_notional[k], max)

\* the bar belongs to a trade of the ledger
InTrade(k) ==
    \E j \in 1..Len(bt.trades) : bt.trades[j].entry <= k /\ k <= bt.trades[j].exit

EthPrice(k) == bt.bars[k].eth_price
BtcPrice(k) == bt.bars[k].btc_price

\* C29: from the second bar on, the P&L of a leg on a bar is the units held
\* on the previous bar times the change of the leg's price from the
\* previous bar to this one.
C29_LegPnlIsUnitsTimesPriceChange ==
    \A k \in Bars :
        k > 1 =>
            /\ bt.eth_pnl[k]
                 = Mul(bt.eth_units[k - 1], Sub(EthPrice(k), EthPrice(k - 1)))
            /\ bt.btc_pnl[k]
                 = Mul(bt.btc_units[k - 1], Sub(BtcPrice(k), BtcPrice(k - 1)))

----------------------------------------------------------------------------
(* run_batch for one pair (specification SpecBatch): every run constructs   *)
(* the pair's machine on the pair's state file, seeds previous_zscore from   *)
(* the bar before the latest one, calls process_tick once and then applies   *)
(* the optional level trigger. A run that skips the pair before the machine  *)
(* is constructed (no data, ADV filter) changes nothing.                     *)

\* signals['zscore'].iloc[-2] offered to a run; None when len(signals) < 2
PreviousBars == { None, NaN, Num(0), Num(21) }

\* latest['zscore'] offered to a run, in tenths
LatestBars == { NaN, Num(0), Num(4), Num(20), Num(21), Num(-21), Num(36) }

\* the machine after the seeding of previous_zscore
Seeded(m, prev) ==
    IF m.previous_zscore = None /\ prev # None /\ ~isna(prev)
    THEN [m EXCEPT !.previous_zscore = prev]
    ELSE m

\* the level trigger replaces the signal of process_tick
LevelTriggered(m, sig, level_trigger, zscore) ==
    /\ sig.signal_type = NO_ACTION
    /\ level_trigger
    /\ m.current_state = NEUTRAL
    /\ ~isna(zscore)
    /\ abs(zscore)[2] >= z_in

\* a variant of LevelTrigger that also moves the machine to the new state
\* and saves it
LevelTrigger_enters(m, f, sig, level_trigger, zscore) ==
    IF LevelTriggered(m, sig, level_trigger, zscore)
    THEN LET stype     == IF zscore[2] > 0 THEN ENTER_SHORT_SPREAD
                                           ELSE ENTER_LONG_SPREAD
             new_state == IF stype = ENTER_SHORT_SPREAD THEN SHORT_SPREAD
                                                        ELSE LONG_SPREAD
             entered   == [m EXCEPT !.current_state = new_state]
         IN  [machine |-> entered, file |-> save_state(entered, f),
              signal  |-> Signal(stype, zscore, m.current_state, new_state),
              level   |-> TRUE]
    ELSE [machine |-> m, file |-> f, signal |-> sig, level |-> FALSE]

\* the optional level trigger: the machine, the state file and the signal
\* after it, and whether it replaced the signal
LevelTrigger(m, f, sig, level_trigger, zscore) ==
    IF LevelTriggered(m, sig, level_trigger, zscore)
    THEN LET stype     == IF zscore[2] > 0 THEN ENTER_SHORT_SPREAD
                                           ELSE ENTER_LONG_SPREAD
             new_state == IF stype = ENTER_SHORT_SPREAD THEN SHORT_SPREAD
                                                        ELSE LONG_SPREAD
         IN  [machine |-> m, file |-> f,
              signal  |-> Signal(stype, zscore, m.current_state, new_state),
              level   |-> TRUE]
    ELSE [machine |-> m, file |-> f, signal |-> sig, level |-> FALSE]

InitBatch == Init /\ state_file

\* one run of run_batch for the pair
RunBatch(prev, timestamp, zscore, beta, level_trigger) ==
    LET sm == Seeded(Construct(file), prev)
        r  == process_tick(sm, timestamp, zscore, beta)
        f  == IF r.save THEN save_state(r.machine, file) ELSE file
        t  == LevelTrigger(r.machine, f, r.signal, level_trigger, zscore)
    IN  /\ pc = "idle"
        /\ machine' = t.machine
        /\ file' = t.file
        /\ signal' = t.signal
        /\ wrote' = (t.file # file)
        /\ last_op' = "run_batch"
        /\ run' = [called |-> TRUE, level_trigger |-> level_trigger,
                   zscore |-> zscore, loaded |-> sm.current_state, ticked |-> r.machine,
                   ticked_file |-> f, level |-> t.level,
                   levels |-> IF t.level
                              THEN (IF run.levels < 2 THEN run.levels + 1 ELSE 2)
                              ELSE 0]
        /\ UNCHANGED <<bt, sz, ct, rb, z_in, z_out, z_stop, state_file, path,
                       rise, last_defined, single, single_signal, pc, observed>>

NextBatch ==
    \E prev \in PreviousBars, timestamp \in Timestamps, zscore \in LatestBars,
       beta \in Betas, level_trigger \in BOOLEAN :
        RunBatch(prev, timestamp, zscore, beta, level_trigger)

SpecBatch == InitBatch /\ [][NextBatch]_vars

IsEnter(sig) ==
    /\ sig.signal_type \in {ENTER_LONG_SPREAD, ENTER_SHORT_SPREAD}
    /\ IsPosition(sig.new_state)

\* C30: the level trigger of run_batch changes neither the pair's machine nor
\* its state file: after a run whose Enter signal came from it, the machine
\* is as process_tick left it, NEUTRAL with no entry snapshot, and the file
\* is as it was before the run; and every run with the level trigger on
\* that loads a NEUTRAL machine and sees |z| >= z_in ends with an Enter
\* signal.
C30_LevelTriggerLeavesNoTrace ==
    /\ (run.called /\ run.level) =>
           /\ IsEnter(signal)
           /\ signal.previous_state = NEUTRAL
           /\ machine = run.ticked
           /\ machine.current_state = NEUTRAL
           /\ NoEntry(machine)
           /\ file = run.ticked_file
           /\ ~wrote
    /\ (run.called /\ run.level_trigger /\ run.loaded = NEUTRAL
            /\ ~isna(run.zscore) /\ abs(run.zscore)[2] >= z_in) =>
           IsEnter(signal)

\* two runs in a row ended with an Enter signal of the level trigger
C30_Witness ==
    /\ run.called /\ run.level /\ run.levels = 2
    /\ IsEnter(signal)
    /\ machine.current_state = NEUTRAL

====
